---- MODULE Spec2Model ----
(***************************************************************************)
(* Model of scripts/generate_mapping.py: the CSV reader, the append-only   *)
(* validator, the id assignment, the idempotency check, the JSON writer    *)
(* and the orchestrating main loop.                                        *)
(*                                                                         *)
(* Strings are atomic in TLC, so str.strip() is a table over the padded    *)
(* strings of the model; a JSON value is a tagged record, so that the      *)
(* integer 0 and the string "0" stay different values.                     *)
(***************************************************************************)
EXTENDS Integers, Sequences, FiniteSets, TLC

VARIABLES
    src,      \* src[m]: the CSV files under mapping m's source directory
    doc,      \* doc[m]: the content of mapping m's output path
    clock,    \* the wall clock, in seconds
    out,      \* out[m]: what the last pipeline run on m did since m's source changed
    pc,       \* the position of the running process ("idle": none has run)
    job,      \* the document the running pipeline is persisting
    start,    \* start[m]: the content of m's output path when main started
    exit      \* exit status of the last process

vars == <<src, doc, clock, out, pc, job, start, exit>>

----------------------------------------------------------------------------
(* Bounds of the model *)

\* rows of the CSV file, in the repeated runs of one pipeline
MaxRows == 2
\* keys of a prior document and rows of the CSV file, in the single runs
MaxLen == 3
\* rows of one CSV file, in the runs of main
MainRows == 2
\* rows of one source directory, in the reader's input space
ReaderRows == 3
\* CSV files of one source directory, in the reader's input space
ReaderFiles == 2
\* rows of one CSV file, in the runs with a crash
CrashRows == 2
\* last second of the clock
MaxClock == 1

----------------------------------------------------------------------------
(* Values *)

Keys == {"a", "b", "c"}
PipeKeys == {"a", "b"}
Vals == {"x", "y"}

\* str.strip(): the padded strings of the model and what they trim to
Padded == (" a" :> "a") @@ (" " :> "") @@ (" comment" :> "comment")

strip(s) == IF s \in DOMAIN Padded THEN Padded[s] ELSE s

Range(f) == {f[i] : i \in DOMAIN f}

RECURSIVE sorted(_)
sorted(S) ==
    IF S = {} THEN <<>>
    ELSE LET lo == CHOOSE x \in S : \A y \in S : x <= y
         IN <<lo>> \o sorted(S \ {lo})

\* Columns that are never included in the generated JSON output
IGNORED_COLUMNS == {"comment"}

\* JSON scalars
JInt(i) == [t |-> "int", n |-> i, s |-> ""]
JStr(x) == [t |-> "str", n |-> 0, s |-> x]

----------------------------------------------------------------------------
(* read_csv_entries *)

\* csv.DictReader: dict(zip(fieldnames, row)); of two columns with one name
\* the later one wins
RowDict(header, row) ==
    [c \in Range(header) |->
        row[CHOOSE i \in DOMAIN header :
                /\ header[i] = c
                /\ \A j \in DOMAIN header : header[j] = c => j <= i]]

output_fields(header) ==
    SelectSeq(header, LAMBDA col : strip(col) \notin IGNORED_COLUMNS)

\* {col.strip(): row[col].strip() for col in output_fields}
make_entry(header, row) ==
    LET fields == output_fields(header)
        d == RowDict(header, row)
    IN [n \in {strip(fields[i]) : i \in DOMAIN fields} |->
           LET last == CHOOSE i \in DOMAIN fields :
                          /\ strip(fields[i]) = n
                          /\ \A j \in DOMAIN fields : strip(fields[j]) = n => j <= i
           IN strip(d[fields[last]])]

ReadOk(entries, seen) ==
    [err |-> "none", entries |-> entries, seen |-> seen, key |-> "", file |-> 0]

ReadErr(kind, key, file) ==
    [err |-> kind, entries |-> <<>>, seen |-> {}, key |-> key, file |-> file]

\* the seen-key test of the row loop
already_seen(key, seen) == key \in seen

RECURSIVE read_rows(_, _, _, _, _)
read_rows(f, name, i, entries, seen) ==
    IF i > Len(f.rows) THEN ReadOk(entries, seen)
    ELSE LET key == strip(RowDict(f.header, f.rows[i])["key"])
         IN IF key = "" THEN read_rows(f, name, i + 1, entries, seen)
            ELSE IF already_seen(key, seen) THEN ReadErr("Duplicate", key, name)
            ELSE read_rows(f, name, i + 1,
                           Append(entries, make_entry(f.header, f.rows[i])),
                           seen \cup {key})

\* read_files with a fault: the set of seen keys starts empty in every file
RECURSIVE read_files_per_file(_, _, _, _, _)
read_files_per_file(dir, csv_files, j, entries, seen) ==
    IF j > Len(csv_files) THEN ReadOk(entries, seen)
    ELSE LET name == csv_files[j]
             f == dir[name]
         IN IF "key" \notin Range(f.header) THEN ReadErr("Schema", "", name)
            ELSE LET r == read_rows(f, name, 1, entries, {})
                 IN IF r.err # "none" THEN r
                    ELSE read_files_per_file(dir, csv_files, j + 1, r.entries, r.seen)

RECURSIVE read_files(_, _, _, _, _)
read_files(dir, csv_files, j, entries, seen) ==
    IF j > Len(csv_files) THEN ReadOk(entries, seen)
    ELSE LET name == csv_files[j]
             f == dir[name]
         IN IF "key" \notin Range(f.header) THEN ReadErr("Schema", "", name)
            ELSE LET r == read_rows(f, name, 1, entries, seen)
                 IN IF r.err # "none" THEN r
                    ELSE read_files(dir, csv_files, j + 1, r.entries, r.seen)

read_csv_entries(dir) ==
    LET csv_files == sorted(DOMAIN dir)
    IN IF csv_files = <<>> THEN ReadErr("NoInput", "", 0)
       ELSE read_files(dir, csv_files, 1, <<>>, {})

----------------------------------------------------------------------------
(* The output path: read_existing_json, write_json, now_iso *)

\* what an output path can hold
Absent == [kind |-> "absent", schema |-> "", lastUpdated |-> 0, hasData |-> FALSE, data |-> <<>>]
Empty == [Absent EXCEPT !.kind = "empty"]
Text == [Absent EXCEPT !.kind = "text"]
Null == [Absent EXCEPT !.kind = "null"]
List == [Absent EXCEPT !.kind = "list"]
Partial(d) == [Absent EXCEPT !.kind = "partial", !.data = d]
Object(schema, stamp, data) ==
    [kind |-> "object", schema |-> schema, lastUpdated |-> stamp, hasData |-> TRUE, data |-> data]

\* Python's None
PyNone == [Absent EXCEPT !.kind = "None"]

\* an uncaught exception
Raised == [Absent EXCEPT !.kind = "raised"]

\* json.load: JSONDecodeError on text that is no JSON value, None for null
json_load(f) ==
    IF f.kind \in {"empty", "text", "partial"} THEN Raised
    ELSE IF f.kind = "null" THEN PyNone
    ELSE f

read_existing_json(f) == IF f.kind = "absent" THEN PyNone ELSE json_load(f)

\* datetime.now(timezone.utc).replace(microsecond=0), formatted
now_iso(t) == t

----------------------------------------------------------------------------
(* validate_append_only *)

Accepted == [err |-> "none", missing |-> {}]

\* removed_keys with a fault: only the first missing key is reported
removed_keys_first(existing_keys, new_keys) ==
    LET gone == {i \in DOMAIN existing_keys : existing_keys[i] \notin Range(new_keys)}
    IN IF gone = {} THEN {}
       ELSE {existing_keys[CHOOSE i \in gone : \A j \in gone : i <= j]}

removed_keys(existing_keys, new_keys) == Range(existing_keys) \ Range(new_keys)

\* key_prefix with a fault: the existing keys as they follow one another in the
\* new list, wherever they stand
key_prefix_relative(existing_keys, new_keys) ==
    SelectSeq(new_keys, LAMBDA k : k \in Range(existing_keys))

key_prefix(existing_keys, new_keys) ==
    SubSeq(new_keys, 1, IF Len(existing_keys) < Len(new_keys)
                        THEN Len(existing_keys) ELSE Len(new_keys))

\* validate_append_only with a fault: the prefix is not compared
validate_removed_only(existing_keys, new_keys) ==
    LET missing == removed_keys(existing_keys, new_keys)
    IN IF missing # {} THEN [err |-> "Removed", missing |-> missing]
       ELSE Accepted

validate_append_only(existing_keys, new_keys) ==
    LET missing == removed_keys(existing_keys, new_keys)
    IN IF missing # {} THEN [err |-> "Removed", missing |-> missing]
       ELSE IF key_prefix(existing_keys, new_keys) # existing_keys
            THEN [err |-> "Reordered", missing |-> {}]
       ELSE Accepted

----------------------------------------------------------------------------
(* generate_mapping *)

\* {"id": i, **entry}: a column of the entry named id replaces the number
make_record(i, entry) ==
    [c \in {"id"} \cup DOMAIN entry |->
        IF c \in DOMAIN entry THEN JStr(entry[c]) ELSE JInt(i)]

\* [{"id": i, **entry} for i, entry in enumerate(entries)]
build_data(entries) == [i \in 1..Len(entries) |-> make_record(i - 1, entries[i])]

\* existing["data"] and entry["key"]: TypeError on a list, KeyError on a
\* missing member
can_extract_keys(existing) ==
    /\ existing.kind = "object"
    /\ existing.hasData
    /\ \A i \in DOMAIN existing.data : "key" \in DOMAIN existing.data[i]

extract_keys(existing) == [i \in DOMAIN existing.data |-> existing.data[i]["key"]]

\* unchanged with a fault: the whole document is compared with the new data,
\* which a document with its schema and timestamp never equals
unchanged_whole_document(existing, new_data) ==
    existing.kind # "None" /\ existing.schema = "" /\ existing.data = new_data

\* existing is not None and existing.get("data") == new_data
unchanged(existing, new_data) == existing.kind # "None" /\ existing.data = new_data

Failed(status, f, entries, missing) ==
    [status |-> status, code |-> 1, wrote |-> FALSE, doc |-> f,
     entries |-> entries, reported |-> missing]

\* one run of the pipeline on a source directory and an output path, at time t
generate_mapping(dir, f, schema_ref, t) ==
    LET rd == read_csv_entries(dir)
        entries == rd.entries
        keys == [i \in DOMAIN entries |-> JStr(entries[i]["key"])]
        existing == read_existing_json(f)
        new_data == build_data(entries)
    IN IF rd.err # "none" THEN Failed(rd.err, f, <<>>, {})
       ELSE IF entries = <<>> THEN Failed("EmptySource", f, entries, {})
       ELSE IF existing.kind = "raised" THEN Failed("Uncaught", f, entries, {})
       ELSE IF existing.kind # "None" /\ ~can_extract_keys(existing)
            THEN Failed("Uncaught", f, entries, {})
       ELSE LET v == IF existing.kind = "None" THEN Accepted
                     ELSE validate_append_only(extract_keys(existing), keys)
            IN IF v.err # "none" THEN Failed(v.err, f, entries, v.missing)
               ELSE IF unchanged(existing, new_data)
                    THEN [status |-> "NoChanges", code |-> 0, wrote |-> FALSE, doc |-> f,
                          entries |-> entries, reported |-> {}]
               ELSE [status |-> "Wrote", code |-> 0, wrote |-> TRUE,
                     doc |-> Object(schema_ref, now_iso(t), new_data),
                     entries |-> entries, reported |-> {}]

----------------------------------------------------------------------------
(* The registry and the state *)

\* Each entry: (source_directory, output_json, schema_ref)
MAPPINGS ==
    << [name |-> "identification", schema_ref |-> "./identification.schema.json"],
       [name |-> "shiny", schema_ref |-> "./shiny.schema.json"] >>

Mappings == DOMAIN MAPPINGS

\* no pipeline has run on the mapping since its source last changed
NoRun ==
    [status |-> "none", code |-> 0, wrote |-> FALSE, before |-> Absent,
     again |-> FALSE, entries |-> <<>>, reported |-> {}, at |-> 0]

Idle == [at |-> "idle", m |-> 0]
Exited == [at |-> "exited", m |-> 0]

\* what a finished pipeline run leaves in out[m]
Outcome(r, m) ==
    [status |-> r.status, code |-> r.code, wrote |-> r.wrote, before |-> doc[m],
     again |-> out[m].status # "none", entries |-> r.entries,
     reported |-> r.reported, at |-> clock]

\* write_json, uninterrupted: open (truncate), json.dump, the newline, close
write_json(m, obj) == doc' = [doc EXCEPT ![m] = obj]

\* generate_mapping on MAPPINGS[m], from its first line to its return or exit
Pipeline(m) ==
    LET r == generate_mapping(src[m], doc[m], MAPPINGS[m].schema_ref, clock)
    IN /\ IF r.wrote THEN write_json(m, r.doc) ELSE UNCHANGED doc
       /\ out' = [out EXCEPT ![m] = Outcome(r, m)]

----------------------------------------------------------------------------
(* The environment: the maintainer edits the CSV files, time passes *)

KeyHeader == <<"key", "displayName">>
IdHeader == <<"key", "id">>
NoKeyHeader == <<"displayName", " comment">>

\* the cells a row may hold under a header, keys drawn from K
RowsFor(h, K) ==
    {row \in [DOMAIN h -> K \cup Vals] :
        \A j \in DOMAIN h : (row[j] \in K) <=> (h[j] = "key")}

TotalRows(dir) ==
    LET RECURSIVE Sum(_)
        Sum(S) == IF S = {} THEN 0
                  ELSE LET x == CHOOSE x \in S : TRUE
                       IN Len(dir[x].rows) + Sum(S \ {x})
    IN Sum(DOMAIN dir)

SetSource(m, dir) ==
    /\ pc = Idle
    /\ src' = [src EXCEPT ![m] = dir]
    /\ out' = [out EXCEPT ![m] = NoRun]
    /\ UNCHANGED <<doc, clock, pc, job, start, exit>>

CreateFile(m, name, h) ==
    /\ name \notin DOMAIN src[m]
    /\ SetSource(m, [n \in DOMAIN src[m] \cup {name} |->
                        IF n = name THEN [header |-> h, rows |-> <<>>] ELSE src[m][n]])

DeleteFile(m, name) ==
    /\ name \in DOMAIN src[m]
    /\ SetSource(m, [n \in DOMAIN src[m] \ {name} |-> src[m][n]])

AppendRow(m, name, row) ==
    /\ name \in DOMAIN src[m]
    /\ SetSource(m, [src[m] EXCEPT ![name].rows = Append(@, row)])

DeleteRow(m, name, i) ==
    /\ name \in DOMAIN src[m]
    /\ i \in DOMAIN src[m][name].rows
    /\ SetSource(m, [src[m] EXCEPT ![name].rows =
                        SubSeq(@, 1, i - 1) \o SubSeq(@, i + 1, Len(@))])

SetCell(m, name, i, j, v) ==
    /\ name \in DOMAIN src[m]
    /\ i \in DOMAIN src[m][name].rows
    /\ src[m][name].rows[i][j] # v
    /\ SetSource(m, [src[m] EXCEPT ![name].rows[i][j] = v])

Tick ==
    /\ clock < MaxClock
    /\ clock' = clock + 1
    /\ UNCHANGED <<src, doc, out, pc, job, start, exit>>

----------------------------------------------------------------------------
(* Spec: generate_mapping run again and again on the first mapping, whose  *)
(* one CSV file the maintainer edits between runs.                         *)

Init ==
    /\ src = [m \in Mappings |-> <<>>]
    /\ doc = [m \in Mappings |-> Absent]
    /\ clock = 0
    /\ out = [m \in Mappings |-> NoRun]
    /\ pc = Idle
    /\ job = Absent
    /\ start = [m \in Mappings |-> Absent]
    /\ exit = 0

NewFile == \E h \in {KeyHeader, IdHeader} : CreateFile(1, 1, h)

RemoveFile == DeleteFile(1, 1)

AddRow ==
    /\ 1 \in DOMAIN src[1]
    /\ Len(src[1][1].rows) < MaxRows
    /\ \E row \in RowsFor(src[1][1].header, PipeKeys) : AppendRow(1, 1, row)

DropRow == \E i \in 1..MaxRows : DeleteRow(1, 1, i)

EditValue == \E i \in 1..MaxRows, v \in Vals : SetCell(1, 1, i, 2, v)

GenerateMapping ==
    /\ pc = Idle
    /\ Pipeline(1)
    /\ exit' = out'[1].code
    /\ UNCHANGED <<src, clock, pc, job, start>>

Next == NewFile \/ RemoveFile \/ AddRow \/ DropRow \/ EditValue \/ Tick \/ GenerateMapping

Spec == Init /\ [][Next]_vars

----------------------------------------------------------------------------
(* Claims about the repeated runs of one pipeline (Spec) *)

\* the key and id of every record, in order
KeyIds(data) == [i \in DOMAIN data |-> <<data[i]["key"], data[i]["id"]>>]

IsPrefix(s, t) == Len(s) <= Len(t) /\ \A i \in DOMAIN s : s[i] = t[i]

\* the last run on mapping m found a document at the output path
FoundDocument(m) == out[m].status # "none" /\ out[m].before.kind = "object"

\* C1: across runs that start from an absent document, a run that finds a
\* document with key list E ends with a document whose key list has E as a
\* prefix, same keys, same positions, same ids, whether it wrote, skipped
\* the write or failed.
C1_AppendOnly ==
    FoundDocument(1) =>
        /\ doc[1].kind = "object"
        /\ IsPrefix(KeyIds(out[1].before.data), KeyIds(doc[1].data))

\* C4: in every document generate_mapping writes, the record at position i
\* has id equal to the integer i, whatever columns the header holds besides
\* key, and every attribute of the entry is carried through.
C4_DenseIds ==
    out[1].wrote =>
        /\ Len(doc[1].data) = Len(out[1].entries)
        /\ \A i \in DOMAIN doc[1].data :
              /\ doc[1].data[i]["id"] = JInt(i - 1)
              /\ \A c \in DOMAIN out[1].entries[i] \ {"id"} :
                    doc[1].data[i][c] = JStr(out[1].entries[i][c])

\* C5: a run on a source that has not changed since the run before it
\* performs no write and leaves the output document as that run left it,
\* lastUpdated included, also when the clock has advanced in between.
C5_Idempotent ==
    out[1].again => ~out[1].wrote /\ doc[1] = out[1].before

\* a second run on an unchanged source, at a second other than the one the
\* document was stamped with
C5_Witness ==
    /\ out[1].again
    /\ out[1].status = "NoChanges"
    /\ doc[1].lastUpdated # now_iso(out[1].at)

----------------------------------------------------------------------------
(* SpecStore: one pipeline run from every prior document and key list      *)

SeqsUpTo(S, n) == UNION {[1..k -> S] : k \in 0..n}

\* a document as an earlier run wrote it, for a key list
Written(keys) ==
    Object(MAPPINGS[1].schema_ref, 0,
           [i \in DOMAIN keys |->
               [id |-> JInt(i - 1), key |-> JStr(keys[i]), displayName |-> JStr("x")]])

\* an object with no data member
NoData == [Object(MAPPINGS[1].schema_ref, 0, <<>>) EXCEPT !.hasData = FALSE]

\* an object whose one record has no key member
NoKey == Object(MAPPINGS[1].schema_ref, 0, <<[id |-> JInt(0)]>>)

Malformed == {Text, Empty, Null, List, NoData, NoKey}

StoreDocs == {Absent} \cup Malformed \cup {Written(k) : k \in SeqsUpTo(Keys, MaxLen)}

\* one CSV file of key and displayName columns
OneFile(rows) == <<[header |-> KeyHeader, rows |-> rows]>>

StoreDirs == {OneFile(r) : r \in SeqsUpTo({<<k, "x">> : k \in Keys}, MaxLen)}

InitStore ==
    /\ \E d \in StoreDirs : src = [m \in Mappings |-> IF m = 1 THEN d ELSE <<>>]
    /\ \E f \in StoreDocs : doc = [m \in Mappings |-> IF m = 1 THEN f ELSE Absent]
    /\ clock = 0
    /\ out = [m \in Mappings |-> NoRun]
    /\ pc = Idle
    /\ job = Absent
    /\ start = [m \in Mappings |-> Absent]
    /\ exit = 0

NextStore == GenerateMapping

SpecStore == InitStore /\ [][NextStore]_vars

\* the key lists the last run on mapping 1 handed to validate_append_only
ExistingKeys == [i \in DOMAIN out[1].before.data |-> out[1].before.data[i]["key"]]
NewKeys == [i \in DOMAIN out[1].entries |-> JStr(out[1].entries[i]["key"])]

\* the last run on mapping 1 read entries and a prior document with a key in
\* every record, so it called validate_append_only
Validated ==
    /\ out[1].entries # <<>>
    /\ out[1].before.kind = "object"
    /\ out[1].before.hasData
    /\ \A i \in DOMAIN out[1].before.data : "key" \in DOMAIN out[1].before.data[i]

MissingKeys == Range(ExistingKeys) \ Range(NewKeys)

\* C2: if an existing key is absent from the new key list, the run fails
\* with the removed-key error, never the reordered-key error, reports
\* exactly the existing keys that are missing, and leaves the document as
\* it was.
C2_RemovedKeys ==
    (Validated /\ MissingKeys # {}) =>
        /\ out[1].status = "Removed"
        /\ out[1].reported = MissingKeys
        /\ out[1].code # 0
        /\ doc[1] = out[1].before

\* a key was removed and two surviving keys swapped places
C2_Witness ==
    /\ Validated
    /\ out[1].status = "Removed"
    /\ \E i, j \in DOMAIN ExistingKeys, k, l \in DOMAIN NewKeys :
          /\ i < j /\ l < k
          /\ ExistingKeys[i] = NewKeys[k]
          /\ ExistingKeys[j] = NewKeys[l]

PrefixKept ==
    /\ Len(ExistingKeys) <= Len(NewKeys)
    /\ \A i \in DOMAIN ExistingKeys : NewKeys[i] = ExistingKeys[i]

\* C3: when every existing key is still in the new key list, the run is
\* accepted if and only if the first len(existingKeys) new keys equal the
\* existing keys position for position; any mismatch fails with the
\* reordered-key error and leaves the document as it was.
C3_PrefixOrReordered ==
    (Validated /\ MissingKeys = {}) =>
        /\ (out[1].status \in {"Wrote", "NoChanges"}) <=> PrefixKept
        /\ ~PrefixKept =>
              /\ out[1].status = "Reordered"
              /\ out[1].code # 0
              /\ doc[1] = out[1].before

\* a new key was inserted between existing keys, whose relative order is
\* as it was, and the run failed with the reordered-key error
C3_Witness ==
    /\ Validated
    /\ out[1].status = "Reordered"
    /\ SelectSeq(NewKeys, LAMBDA k : k \in Range(ExistingKeys)) = ExistingKeys

\* C10: whenever the output path exists and does not hold a valid Mapping
\* Document (unparseable text, null, a list, an object without data, a
\* record without key), a run that gets to read it fails and does not
\* overwrite it.
C10_MalformedIsFatal ==
    (out[1].entries # <<>> /\ out[1].before \in Malformed) =>
        /\ out[1].code # 0
        /\ ~out[1].wrote
        /\ doc[1] = out[1].before

----------------------------------------------------------------------------
(* SpecReader: the maintainer fills a source directory of several CSV      *)
(* files, with padded and empty key cells, then the pipeline runs once.    *)

ReaderKeyCells == {"a", " a", "b", ""}

\* no run yet on the first mapping
Fresh == out[1] = NoRun /\ doc[1] = Absent /\ pc = Idle

ReaderNewFile ==
    /\ Fresh
    /\ \E name \in 1..ReaderFiles, h \in {KeyHeader, NoKeyHeader} : CreateFile(1, name, h)

ReaderAddRow ==
    /\ Fresh
    /\ TotalRows(src[1]) < ReaderRows
    /\ \E name \in DOMAIN src[1] :
          \E row \in RowsFor(src[1][name].header, ReaderKeyCells) : AppendRow(1, name, row)

ReaderRun == out[1].status = "none" /\ GenerateMapping

NextReader == ReaderNewFile \/ ReaderAddRow \/ ReaderRun

SpecReader == Init /\ [][NextReader]_vars

\* the rows of the source table set that hold a key, as (file, row) places
KeyPlaces ==
    {p \in (DOMAIN src[1]) \X (1..ReaderRows) :
        /\ "key" \in Range(src[1][p[1]].header)
        /\ p[2] \in DOMAIN src[1][p[1]].rows}

\* the trimmed key of a place: the cell under the key column
KeyAt(p) ==
    LET f == src[1][p[1]]
        col == CHOOSE j \in DOMAIN f.header : f.header[j] = "key"
    IN strip(f.rows[p[2]][col])

\* filename order, then row order
Before(p, q) == p[1] < q[1] \/ (p[1] = q[1] /\ p[2] < q[2])

\* places whose non-empty trimmed key already occurs at an earlier place
Repeats == {q \in KeyPlaces : KeyAt(q) # "" /\ \E p \in KeyPlaces : Before(p, q) /\ KeyAt(p) = KeyAt(q)}

\* a file without key column is sorted before every repeated key
SchemaFirst ==
    \A q \in Repeats : \E n \in DOMAIN src[1] : n < q[1] /\ "key" \notin Range(src[1][n].header)

Ran == out[1].status # "none"

EntryKeys == [i \in DOMAIN out[1].entries |-> out[1].entries[i]["key"]]

----------------------------------------------------------------------------
(* SpecMain: main over the registry, from every pair of small source       *)
(* directories and every pair of prior output files.                       *)

\* no CSV file, a file without key column, or one file of key rows
MainDirs ==
    {<<>>, <<[header |-> NoKeyHeader, rows |-> <<>>]>>}
        \cup {OneFile(r) : r \in SeqsUpTo({<<k, "x">> : k \in PipeKeys}, MainRows)}

MainDocs == {Absent, Text, Null, List, NoKey, Written(<<"a">>), Written(<<"a", "b">>)}

InitMain ==
    /\ src \in [Mappings -> MainDirs]
    /\ doc \in [Mappings -> MainDocs]
    /\ clock = 0
    /\ out = [m \in Mappings |-> NoRun]
    /\ pc = Idle
    /\ job = Absent
    /\ start = doc
    /\ exit = 0

\* for source_dir, output_path, schema_ref in MAPPINGS: the first pipeline
MainStart ==
    /\ pc \in {Idle, Exited}
    /\ pc' = [at |-> "run", m |-> 1]
    /\ out' = [m \in Mappings |-> NoRun]
    /\ start' = doc
    /\ UNCHANGED <<src, doc, clock, job, exit>>

\* main_next with a fault: a failed pipeline does not end the loop
main_keep_going(m, code) ==
    IF m = Len(MAPPINGS) THEN Exited ELSE [at |-> "run", m |-> m + 1]

\* where main goes after the pipeline of mapping m ended with status code:
\* sys.exit and an uncaught exception end the process
main_next(m, code) ==
    IF code # 0 THEN Exited
    ELSE IF m = Len(MAPPINGS) THEN Exited
    ELSE [at |-> "run", m |-> m + 1]

\* the pipeline of the mapping main has come to, run to its end
MainStep ==
    /\ pc.at = "run"
    /\ Pipeline(pc.m)
    /\ pc' = main_next(pc.m, out'[pc.m].code)
    /\ exit' = IF pc' = Exited THEN out'[pc.m].code ELSE exit
    /\ UNCHANGED <<src, clock, job, start>>

NextMain == MainStart \/ MainStep \/ Tick

SpecMain == InitMain /\ [][NextMain]_vars

Succeeded(m) == out[m].status \in {"Wrote", "NoChanges"}

FailedRun(m) ==
    out[m].status \in {"NoInput", "Schema", "Duplicate", "EmptySource",
                       "Removed", "Reordered", "Uncaught"}

\* C9: main runs the pipelines in list order, one at a time. When the
\* pipeline of mapping k fails, the process ends at once with a non-zero
\* status, k's output document is as it was before the run, and no later
\* mapping is read or written; when every pipeline succeeds or reports no
\* changes, the status is 0.
C9_FailFast ==
    /\ pc.at = "run" =>
          /\ \A j \in Mappings : j < pc.m => Succeeded(j)
          /\ \A j \in Mappings : j >= pc.m => out[j] = NoRun /\ doc[j] = start[j]
    /\ pc = Exited =>
          \/ /\ exit = 0
             /\ \A j \in Mappings : Succeeded(j)
          \/ /\ exit # 0
             /\ \E k \in Mappings :
                   /\ FailedRun(k)
                   /\ out[k].code # 0
                   /\ doc[k] = start[k]
                   /\ \A j \in Mappings : j < k => Succeeded(j)
                   /\ \A j \in Mappings : j > k => out[j] = NoRun /\ doc[j] = start[j]

\* the first pipeline wrote its document, the second failed on a removed
\* key, and main ended with a non-zero status
C9_Witness ==
    /\ pc = Exited
    /\ exit # 0
    /\ out[1].status = "Wrote"
    /\ out[2].status = "Removed"

----------------------------------------------------------------------------
(* SpecCrash: one pipeline whose write_json is taken step by step, and a   *)
(* process that can die between any two steps.                             *)

CrashDirs == {OneFile(r) : r \in SeqsUpTo({<<k, v>> : k \in PipeKeys, v \in Vals}, CrashRows)}

CrashDocs == {Absent, Written(<<"a">>)}

InitCrash ==
    /\ \E d \in CrashDirs : src = [m \in Mappings |-> IF m = 1 THEN d ELSE <<>>]
    /\ \E f \in CrashDocs : doc = [m \in Mappings |-> IF m = 1 THEN f ELSE Absent]
    /\ clock = 0
    /\ out = [m \in Mappings |-> NoRun]
    /\ pc = Idle
    /\ job = Absent
    /\ start = [m \in Mappings |-> Absent]
    /\ exit = 0

\* generate_mapping up to its call of write_json, or to its return or exit
CrashBegin ==
    /\ pc \in {Idle, Exited}
    /\ LET r == generate_mapping(src[1], doc[1], MAPPINGS[1].schema_ref, clock)
       IN /\ out' = [out EXCEPT ![1] =
                        [Outcome(r, 1) EXCEPT !.status = IF r.wrote THEN "Writing" ELSE @]]
          /\ job' = IF r.wrote THEN r.doc ELSE Absent
          /\ pc' = IF r.wrote THEN [at |-> "open", m |-> 1] ELSE Exited
          /\ exit' = IF r.wrote THEN exit ELSE r.code
    /\ UNCHANGED <<src, doc, clock, start>>

\* open(path, "w"): the file is created or truncated
WriteOpen ==
    /\ pc.at = "open"
    /\ doc' = [doc EXCEPT ![pc.m] = Empty]
    /\ pc' = [pc EXCEPT !.at = "dump"]
    /\ UNCHANGED <<src, clock, out, job, start, exit>>

\* json.dump: the text reaches the file piece by piece
WriteDump ==
    /\ pc.at = "dump"
    /\ \E n \in 0..Len(job.data) :
          /\ doc[pc.m].kind = "empty" \/ Len(doc[pc.m].data) < n
          /\ doc' = [doc EXCEPT ![pc.m] = Partial(SubSeq(job.data, 1, n))]
    /\ UNCHANGED <<src, clock, out, pc, job, start, exit>>

\* the end of json.dump, the newline, and the close of the file
WriteClose ==
    /\ pc.at = "dump"
    /\ write_json(pc.m, job)
    /\ out' = [out EXCEPT ![pc.m].status = "Wrote"]
    /\ pc' = Exited
    /\ exit' = 0
    /\ UNCHANGED <<src, clock, job, start>>

\* the process dies inside write_json
Crash ==
    /\ pc.at \in {"open", "dump"}
    /\ out' = [out EXCEPT ![pc.m].status = "Crashed"]
    /\ pc' = Exited
    /\ exit' = 137
    /\ UNCHANGED <<src, doc, clock, job, start>>

NextCrash == CrashBegin \/ WriteOpen \/ WriteDump \/ WriteClose \/ Crash \/ Tick

SpecCrash == InitCrash /\ [][NextCrash]_vars

\* C8: after a crash inside the write of a changed document, the output
\* file holds the complete new document or the complete prior document.
C8_CrashSafe ==
    out[1].status = "Crashed" => doc[1] \in {job, out[1].before}

====
